---- MODULE Spec2Model ----
(***************************************************************************)
(* A model of src/toc.rs of epub-builder: the table of contents (Toc), its *)
(* elements (TocElement), the level-based insertion and the two renderers. *)
(*                                                                         *)
(* A TocElement is a record [level, url, title, children]; children is a   *)
(* sequence of such records.  A url is modelled by a natural number that   *)
(* names the string "#n"; a title is a sequence of one-character strings;  *)
(* a rendered string is a sequence of tokens [k, v] (a literal piece of    *)
(* markup, a character of the title, an id, a link).                       *)
(***************************************************************************)
EXTENDS Integers, Sequences, FiniteSets, TLC

\* The number of TocElement::new calls of a run.
MaxNodes == 3

\* The level of a part ("0: part, 1: chapter, 2: section, ...").
PartLevel == 0

\* The level TocElement::new gives an element.
DefaultLevel == 1

\* The level the example of TocElement::child sets by hand.
DocLevel == 42

\* The levels the caller passes to TocElement::level.
Levels == {PartLevel, DefaultLevel, DocLevel}

\* The titles the caller passes, in turn: a title with a character to escape
\* and trailing white space, and the empty title.
Titles == << <<"&", " ">>, <<>> >>

\* The title of the k-th element the caller creates.
TitleOf(k) == Titles[((k - 1) % Len(Titles)) + 1]

VARIABLES
    toc,      \* Toc.elements
    elems,    \* the elements the caller holds, not yet given away
    created,  \* the number of TocElement::new calls so far
    hist,     \* the elements passed to Toc::add, in call order
    out       \* what the last call of is_empty, render or render_epub returned

vars == <<toc, elems, created, hist, out>>

----------------------------------------------------------------------------
(* Sequences *)

Last(s) == s[Len(s)]

Remove(s, j) == [k \in 1..(Len(s) - 1) |-> IF k < j THEN s[k] ELSE s[k + 1]]

\* The index an element at i has once the element at j # i is removed.
IndexAfterRemove(i, j) == IF i < j THEN i ELSE i - 1

Lit(s) == [k |-> "lit", v |-> s]

Chars(cs) == [i \in DOMAIN cs |-> [k |-> "ch", v |-> cs[i]]]

----------------------------------------------------------------------------
(* TocElement *)

TocElement_new(url, title) ==
    [level |-> DefaultLevel, url |-> url, title |-> title, children |-> <<>>]

TocElement_level(self, level) == [self EXCEPT !.level = level]

\* level_up with the comparison made against the level the node had before.
RECURSIVE level_up_old(_, _)
level_up_old(self, level) ==
    [self EXCEPT
        !.level = level,
        !.children = [i \in DOMAIN self.children |->
                        IF self.children[i].level <= self.level
                        THEN level_up_old(self.children[i], level + 1)
                        ELSE self.children[i]]]

\* level_up that sets the level of the node and leaves its children alone.
level_up_shallow(self, level) == [self EXCEPT !.level = level]

\* self.level is assigned first: the loop compares with the new level.
RECURSIVE level_up(_, _)
level_up(self, level) ==
    [self EXCEPT
        !.level = level,
        !.children = [i \in DOMAIN self.children |->
                        IF self.children[i].level <= level
                        THEN level_up(self.children[i], level + 1)
                        ELSE self.children[i]]]

TocElement_child(self, child) ==
    LET c == IF child.level <= self.level
             THEN level_up(child, self.level + 1)
             ELSE child
    IN [self EXCEPT !.children = Append(@, c)]

\* add that descends on an equal level too.
RECURSIVE TocElement_add_geq(_, _)
TocElement_add_geq(self, element) ==
    IF self.children # <<>> /\ element.level >= Last(self.children).level
    THEN [self EXCEPT !.children[Len(self.children)] =
                          TocElement_add_geq(@, element)]
    ELSE [self EXCEPT !.children = Append(@, element)]

\* add that forgets it has inserted the clone and pushes the element too.
RECURSIVE TocElement_add_twice(_, _)
TocElement_add_twice(self, element) ==
    IF self.children # <<>> /\ element.level > Last(self.children).level
    THEN [self EXCEPT !.children =
             Append([@ EXCEPT ![Len(self.children)] =
                                  TocElement_add_twice(@, element)],
                    element)]
    ELSE [self EXCEPT !.children = Append(@, element)]

\* element.clone() is a copy by value: the clone goes down, the original is
\* pushed only when nothing was inserted.
RECURSIVE TocElement_add(_, _)
TocElement_add(self, element) ==
    IF self.children # <<>> /\ element.level > Last(self.children).level
    THEN [self EXCEPT !.children[Len(self.children)] =
                          TocElement_add(@, element)]
    ELSE [self EXCEPT !.children = Append(@, element)]

\* encode_text of one character.
EscapeChar(c) ==
    CASE c = "&" -> <<"&", "a", "m", "p", ";">>
      [] c = "<" -> <<"&", "l", "t", ";">>
      [] c = ">" -> <<"&", "g", "t", ";">>
      [] OTHER   -> <<c>>

RECURSIVE encode_text(_)
encode_text(title) ==
    IF title = <<>> THEN <<>>
    ELSE EscapeChar(Head(title)) \o encode_text(Tail(title))

RECURSIVE trim(_)
trim(s) ==
    IF s = <<>> THEN <<>>
    ELSE IF Head(s) = " " THEN trim(Tail(s))
    ELSE IF Last(s) = " " THEN trim(SubSeq(s, 1, Len(s) - 1))
    ELSE s

NavPoint(id, title, url, children) ==
    <<Lit("\n<navPoint id=\"navPoint-"), [k |-> "id", v |-> id],
      Lit("\">\n  <navLabel>\n   <text>")>>
    \o Chars(trim(encode_text(title)))
    \o <<Lit("</text>\n  </navLabel>\n  <content src=\""),
         [k |-> "src", v |-> url], Lit("\" />\n")>>
    \o children
    \o <<Lit("\n</navPoint>")>>

\* render_epub that hands every child the same offset and returns its own.
RECURSIVE render_epub_flat(_, _), RenderEpubLoopFlat(_, _, _)
render_epub_flat(self, offset) ==
    LET id == offset + 1
        r  == RenderEpubLoopFlat(self.children, 1, <<id, <<>>>>)
    IN <<id, NavPoint(id, self.title, self.url, r[2])>>

RenderEpubLoopFlat(children, i, acc) ==
    IF i > Len(children) THEN acc
    ELSE LET r == render_epub_flat(children[i], acc[1])
         IN RenderEpubLoopFlat(children, i + 1, <<acc[1], acc[2] \o r[2]>>)

\* The pair (offset, output): the loop over the children threads the offset.
RECURSIVE render_epub(_, _), RenderEpubLoop(_, _, _)
render_epub(self, offset) ==
    LET id == offset + 1
        r  == RenderEpubLoop(self.children, 1, <<id, <<>>>>)
    IN <<r[1], NavPoint(id, self.title, self.url, r[2])>>

RenderEpubLoop(children, i, acc) ==
    IF i > Len(children) THEN acc
    ELSE LET r == render_epub(children[i], acc[1])
         IN RenderEpubLoop(children, i + 1, <<r[1], acc[2] \o r[2]>>)

Oul(numbered) == IF numbered THEN "ol" ELSE "ul"

ListItem(url, title, children) ==
    <<Lit("<li><a href=\""), [k |-> "href", v |-> url], Lit("\">")>>
    \o Chars(encode_text(title))
    \o <<Lit("</a>")>>
    \o children
    \o <<Lit("</li>\n")>>

\* render that drops an element without a title and keeps its children.
RECURSIVE render_keep(_, _), RenderLoopKeep(_, _, _)
render_keep(self, numbered) ==
    IF self.title = <<>> THEN RenderLoopKeep(self.children, 1, numbered)
    ELSE LET children ==
                 IF self.children = <<>> THEN <<>>
                 ELSE <<Lit("\n<"), Lit(Oul(numbered)), Lit(">")>>
                      \o RenderLoopKeep(self.children, 1, numbered)
                      \o <<Lit("\n</"), Lit(Oul(numbered)), Lit(">\n")>>
         IN ListItem(self.url, self.title, children)

RenderLoopKeep(children, i, numbered) ==
    IF i > Len(children) THEN <<>>
    ELSE render_keep(children[i], numbered)
         \o RenderLoopKeep(children, i + 1, numbered)

RECURSIVE render(_, _), RenderLoop(_, _, _)
render(self, numbered) ==
    IF self.title = <<>> THEN <<>>
    ELSE LET children ==
                 IF self.children = <<>> THEN <<>>
                 ELSE <<Lit("\n<"), Lit(Oul(numbered)), Lit(">")>>
                      \o RenderLoop(self.children, 1, numbered)
                      \o <<Lit("\n</"), Lit(Oul(numbered)), Lit(">\n")>>
         IN ListItem(self.url, self.title, children)

RenderLoop(children, i, numbered) ==
    IF i > Len(children) THEN <<>>
    ELSE render(children[i], numbered)
         \o RenderLoop(children, i + 1, numbered)

----------------------------------------------------------------------------
(* Toc *)

Toc_new == <<>>

\* is_empty that takes only a Toc without elements for empty.
Toc_is_empty_zero(elements) == Len(elements) = 0

Toc_is_empty(elements) == Len(elements) <= 1

\* add that looks at the first element instead of the last.
Toc_add_first(elements, element) ==
    IF elements # <<>> /\ element.level > Head(elements).level
    THEN [elements EXCEPT ![1] = TocElement_add(@, element)]
    ELSE Append(elements, element)

\* add that descends on an equal level too.
Toc_add_geq(elements, element) ==
    IF elements # <<>> /\ element.level >= Last(elements).level
    THEN [elements EXCEPT ![Len(elements)] = TocElement_add(@, element)]
    ELSE Append(elements, element)

Toc_add(elements, element) ==
    IF elements # <<>> /\ element.level > Last(elements).level
    THEN [elements EXCEPT ![Len(elements)] = TocElement_add(@, element)]
    ELSE Append(elements, element)

Toc_render_epub(elements) == RenderEpubLoop(elements, 1, <<0, <<>>>>)[2]

Toc_render(elements, numbered) ==
    <<Lit("<"), Lit(Oul(numbered)), Lit(">\n")>>
    \o RenderLoop(elements, 1, numbered)
    \o <<Lit("\n</"), Lit(Oul(numbered)), Lit(">\n")>>

----------------------------------------------------------------------------
(* The caller's steps *)

NoOut == [op |-> "none", numbered |-> FALSE, val |-> <<>>]

Init ==
    /\ toc = Toc_new
    /\ elems = <<>>
    /\ created = 0
    /\ hist = <<>>
    /\ out = NoOut

\* let e = TocElement::new(url, title);
New ==
    /\ created < MaxNodes
    /\ UNCHANGED <<toc, hist>>
    /\ out' = NoOut
    /\ created' = created + 1
    /\ elems' = Append(elems, TocElement_new(created + 1, TitleOf(created + 1)))

\* let e = e.level(n);
Level(i, n) ==
    /\ i \in DOMAIN elems
    /\ UNCHANGED <<toc, created, hist>>
    /\ out' = NoOut
    /\ elems' = [elems EXCEPT ![i] = TocElement_level(@, n)]

\* let p = p.child(c);
Child(i, j) ==
    /\ i \in DOMAIN elems
    /\ j \in DOMAIN elems
    /\ i # j
    /\ UNCHANGED <<toc, created, hist>>
    /\ out' = NoOut
    /\ elems' = Remove([elems EXCEPT ![i] = TocElement_child(@, elems[j])], j)

\* p.add(e);
ElemAdd(i, j) ==
    /\ i \in DOMAIN elems
    /\ j \in DOMAIN elems
    /\ i # j
    /\ UNCHANGED <<toc, created, hist>>
    /\ out' = NoOut
    /\ elems' = Remove([elems EXCEPT ![i] = TocElement_add(@, elems[j])], j)

\* toc.add(e);
TocAdd(i) ==
    /\ i \in DOMAIN elems
    /\ UNCHANGED created
    /\ out' = NoOut
    /\ hist' = Append(hist, elems[i])
    /\ elems' = Remove(elems, i)
    /\ toc' = Toc_add(toc, elems[i])

\* toc.is_empty()
IsEmpty ==
    /\ UNCHANGED <<toc, elems, created, hist>>
    /\ out' = [op |-> "is_empty", numbered |-> FALSE, val |-> Toc_is_empty(toc)]

\* toc.render(numbered)
Render(numbered) ==
    /\ UNCHANGED <<toc, elems, created, hist>>
    /\ out' = [op |-> "render", numbered |-> numbered,
               val |-> Toc_render(toc, numbered)]

\* toc.render_epub()
RenderEpub ==
    /\ UNCHANGED <<toc, elems, created, hist>>
    /\ out' = [op |-> "render_epub", numbered |-> FALSE,
               val |-> Toc_render_epub(toc)]

Next ==
    \/ New
    \/ \E i \in DOMAIN elems, n \in Levels : Level(i, n)
    \/ \E i \in DOMAIN elems, j \in DOMAIN elems : Child(i, j)
    \/ \E i \in DOMAIN elems, j \in DOMAIN elems : ElemAdd(i, j)
    \/ \E i \in DOMAIN elems : TocAdd(i)
    \/ IsEmpty
    \/ \E numbered \in BOOLEAN : Render(numbered)
    \/ RenderEpub

Spec == Init /\ [][Next]_vars

----------------------------------------------------------------------------
(* The vocabulary of the properties *)

\* The nodes of the forest s in depth-first pre-order, each with the url of
\* its parent (0: none), its position among its siblings, and whether the
\* titles of all its ancestors are non-empty.
RECURSIVE NodesFrom(_, _, _, _)
NodesFrom(s, i, parent, shown) ==
    IF i > Len(s) THEN <<>>
    ELSE <<[url |-> s[i].url, level |-> s[i].level, title |-> s[i].title,
            parent |-> parent, pos |-> i, shown |-> shown]>>
         \o NodesFrom(s[i].children, 1, s[i].url, shown /\ s[i].title # <<>>)
         \o NodesFrom(s, i + 1, parent, shown)

Nodes(s) == NodesFrom(s, 1, 0, TRUE)

Size(s) == Len(Nodes(s))

Range(f) == {f[x] : x \in DOMAIN f}

\* The nodes without their place: url, level and title.
Plain(s) ==
    LET n == Nodes(s)
    IN [k \in DOMAIN n |->
           [url |-> n[k].url, level |-> n[k].level, title |-> n[k].title]]

\* Every element of the forest s, at any depth, whose url is u.
RECURSIVE FindAll(_, _, _)
FindAll(s, i, u) ==
    IF i > Len(s) THEN <<>>
    ELSE (IF s[i].url = u THEN <<s[i]>> ELSE <<>>)
         \o FindAll(s[i].children, 1, u)
         \o FindAll(s, i + 1, u)

\* The values of the tokens of one kind, in the order of the output.
Vals(output, kind) ==
    LET f == SelectSeq(output, LAMBDA t : t.k = kind)
    IN [x \in DOMAIN f |-> f[x].v]

Count(output, piece) ==
    Len(SelectSeq(output, LAMBDA t : t.k = "lit" /\ t.v = piece))

AllLeaf(h) == \A k \in DOMAIN h : h[k].children = <<>>

RECURSIVE WellNested(_)
WellNested(s) ==
    \A i \in DOMAIN s :
        /\ \A c \in DOMAIN s[i].children : s[i].children[c].level > s[i].level
        /\ WellNested(s[i].children)

AllWellNested == WellNested(toc) /\ WellNested(elems)

RECURSIVE SiblingsNonIncreasing(_)
SiblingsNonIncreasing(s) ==
    /\ \A i \in 1..(Len(s) - 1) : s[i].level >= s[i + 1].level
    /\ \A i \in DOMAIN s : SiblingsNonIncreasing(s[i].children)

\* The levels along the rightmost spine.
RECURSIVE Spine(_)
Spine(s) ==
    IF s = <<>> THEN <<>> ELSE <<Last(s).level>> \o Spine(Last(s).children)

RECURSIVE PlainOfAll(_, _)
PlainOfAll(h, i) ==
    IF i > Len(h) THEN <<>> ELSE Plain(<<h[i]>>) \o PlainOfAll(h, i + 1)

\* new is old rewritten to level n, the rewrite going on, with n + 1, into
\* the children whose level was at most the level old had before.
RECURSIVE RewrittenByOldLevel(_, _, _)
RewrittenByOldLevel(old, new, n) ==
    /\ new.level = n
    /\ new.url = old.url
    /\ new.title = old.title
    /\ Len(new.children) = Len(old.children)
    /\ \A c \in DOMAIN old.children :
           IF old.children[c].level <= old.level
           THEN RewrittenByOldLevel(old.children[c], new.children[c], n + 1)
           ELSE new.children[c] = old.children[c]

\* new is old rewritten to level n, the rewrite going on, with n + 1, into
\* the children whose level is at most n.
RECURSIVE RewrittenByNewLevel(_, _, _)
RewrittenByNewLevel(old, new, n) ==
    /\ new.level = n
    /\ new.url = old.url
    /\ new.title = old.title
    /\ Len(new.children) = Len(old.children)
    /\ \A c \in DOMAIN old.children :
           IF old.children[c].level <= n
           THEN RewrittenByNewLevel(old.children[c], new.children[c], n + 1)
           ELSE new.children[c] = old.children[c]

\* after is before with the element e and its subtree appended somewhere:
\* e is there once and as it was, the count grows by the size of e, and the
\* nodes of before keep level, url, title, parent and position.
AppendedOnly(before, after, e) ==
    LET nb == Nodes(before)
        na == Nodes(after)
        at == {k \in DOMAIN na : na[k].url = e.url}
    IN /\ FindAll(after, 1, e.url) = <<e>>
       /\ Len(na) = Len(nb) + Size(<<e>>)
       /\ Range(nb) \subseteq Range(na)
       /\ \A k \in at : \A m \in DOMAIN na :
              na[m].parent = na[k].parent => na[m].pos <= na[k].pos

\* In t, the element e is the last child of the entry of h added most
\* recently with a lower level, or the last top-level element if h has none.
PlacedUnderLastLower(t, h, e) ==
    LET lower == {j \in DOMAIN h : h[j].level < e.level}
        n     == Nodes(t)
        at    == {k \in DOMAIN n : n[k].url = e.url}
    IN /\ Cardinality(at) = 1
       /\ IF lower = {}
          THEN /\ \A k \in at : n[k].parent = 0
               /\ t # <<>> /\ Last(t).url = e.url
          ELSE LET j == CHOOSE x \in lower : \A y \in lower : y <= x
                   p == FindAll(t, 1, h[j].url)
               IN /\ \A k \in at : n[k].parent = h[j].url
                  /\ Len(p) = 1
                  /\ p[1].children # <<>>
                  /\ Last(p[1].children).url = e.url

----------------------------------------------------------------------------
(* The properties *)

\* C1: when every entry given to Toc::add is childless, each added entry
\* becomes the last child of the most recently added entry with a strictly
\* lower level, and the last top-level element exactly when no entry added
\* before has a strictly lower level.
C1_AddUnderLastLower ==
    [][\A i \in DOMAIN elems :
          (TocAdd(i) /\ AllLeaf(hist')) =>
              PlacedUnderLastLower(toc', hist, elems[i])]_vars

\* C1, its case: three childless entries added, the third nested under the
\* first although the second was added in between.
C1_Witness ==
    /\ AllLeaf(hist)
    /\ Len(hist) = 3
    /\ hist[1].level < hist[2].level
    /\ hist[3].level <= hist[2].level
    /\ hist[1].level < hist[3].level
    /\ Len(toc) = 1
    /\ Len(toc[1].children) = 2

\* C2: after p.child(c) the attached child's level is p.level + 1, whatever
\* level c had before.
C2_ChildLevelIsParentPlusOne ==
    [][\A i \in DOMAIN elems : \A j \in DOMAIN elems :
          Child(i, j) =>
              Last(elems'[IndexAfterRemove(i, j)].children).level
                  = elems[i].level + 1]_vars

\* C3: render_epub gives the nodes the ids 1..N, N the number of nodes of
\* the whole tree, the k-th node in pre-order getting the id k.
C3_EpubIdsPreOrder ==
    out.op = "render_epub" =>
        LET n == Nodes(toc)
        IN /\ Vals(out.val, "id") = [k \in DOMAIN n |-> k]
           /\ Vals(out.val, "src") = [k \in DOMAIN n |-> n[k].url]

\* C3, its case: a rendered Toc whose first top-level element has children
\* and is followed by another, with an empty title among the nodes.
C3_Witness ==
    /\ out.op = "render_epub"
    /\ Len(toc) >= 2
    /\ toc[1].children # <<>>
    /\ \E k \in DOMAIN Nodes(toc) : Nodes(toc)[k].title = <<>>

\* C4, as stated: in every tree the public operations build, every child's
\* level is strictly greater than its parent's.
C4_EveryChildDeeper == AllWellNested

\* C4, amended: a step keeps every child's level strictly greater than its
\* parent's, unless it is level applied to an element that has children or
\* TocElement::add of an element whose level is not greater than the
\* receiver's.
C4_DeeperKeptByOtherSteps ==
    [][(/\ AllWellNested
        /\ ~ \E i \in DOMAIN elems, n \in Levels :
               Level(i, n) /\ elems[i].children # <<>>
        /\ ~ \E i \in DOMAIN elems, j \in DOMAIN elems :
               ElemAdd(i, j) /\ elems[j].level <= elems[i].level)
       => AllWellNested']_vars

\* C4, its case: a Toc whose element was built with child, level_up having
\* rewritten the child and the child's child to the next two levels.
C4_Witness ==
    /\ AllWellNested
    /\ Len(toc) = 1
    /\ toc[1].level = DefaultLevel
    /\ toc[1].children # <<>>
    /\ toc[1].children[1].level = DefaultLevel + 1
    /\ toc[1].children[1].children # <<>>
    /\ toc[1].children[1].children[1].level = DefaultLevel + 2

\* C5: is_empty returns true exactly when the Toc has at most one top-level
\* element, however many entries are nested below it.
C5_IsEmptyIffAtMostOneTop ==
    out.op = "is_empty" =>
        (out.val <=>
            Cardinality({k \in DOMAIN Nodes(toc) : Nodes(toc)[k].parent = 0})
                <= 1)

\* C5, its case: is_empty answers true for a Toc of three entries, two of
\* them nested below the only top-level one.
C5_Witness ==
    /\ out.op = "is_empty"
    /\ out.val = TRUE
    /\ Len(hist) = 3
    /\ Size(toc) = 3

\* C6: render emits one list item for each entry whose title and whose
\* ancestors' titles are all non-empty, in pre-order, and nothing for any
\* other entry.
C6_ListItemsForShownEntries ==
    out.op = "render" =>
        LET n     == Nodes(toc)
            shown == SelectSeq(n, LAMBDA x : x.shown /\ x.title # <<>>)
        IN /\ Vals(out.val, "href") = [k \in DOMAIN shown |-> shown[k].url]
           /\ Count(out.val, "<li><a href=\"") = Len(shown)
           /\ Count(out.val, "</li>\n") = Len(shown)

\* C6, its case: a numbered rendering of a Toc in which an entry with a
\* title lies below an entry without one, and another entry is shown.
C6_Witness ==
    /\ out.op = "render"
    /\ out.numbered
    /\ \E k \in DOMAIN Nodes(toc) :
          Nodes(toc)[k].title # <<>> /\ ~ Nodes(toc)[k].shown
    /\ \E k \in DOMAIN Nodes(toc) :
          Nodes(toc)[k].title # <<>> /\ Nodes(toc)[k].shown

\* C7, as stated: p.child(c) with c.level <= p.level rewrites c to
\* p.level + 1, and the rewrite goes on into exactly the children whose
\* level was at most the level their parent had before.
C7_RewriteByOldLevel ==
    [][\A i \in DOMAIN elems : \A j \in DOMAIN elems :
          (Child(i, j) /\ elems[j].level <= elems[i].level) =>
              RewrittenByOldLevel(
                  elems[j],
                  Last(elems'[IndexAfterRemove(i, j)].children),
                  elems[i].level + 1)]_vars

\* C7, amended: p.child(c) with c.level <= p.level rewrites c to
\* p.level + 1, and level_up(n) goes on, with n + 1, into exactly the
\* children whose level is at most n, the level just given to their parent;
\* every other child keeps its level and its subtree.
C7_RewriteByNewLevel ==
    [][\A i \in DOMAIN elems : \A j \in DOMAIN elems :
          (Child(i, j) /\ elems[j].level <= elems[i].level) =>
              RewrittenByNewLevel(
                  elems[j],
                  Last(elems'[IndexAfterRemove(i, j)].children),
                  elems[i].level + 1)]_vars

\* C7, its case: an element the caller holds whose child was rewritten to
\* its level plus one, and that child's child, which was above the level
\* its parent had before, rewritten in turn.
C7_Witness ==
    \E i \in DOMAIN elems :
        /\ elems[i].level = DefaultLevel
        /\ elems[i].children # <<>>
        /\ Last(elems[i].children).level = DefaultLevel + 1
        /\ Last(elems[i].children).children # <<>>
        /\ Last(elems[i].children).children[1].level = DefaultLevel + 2

\* C8: Toc::add and TocElement::add only append: the element and its
\* subtree are in the result once and unchanged, the node count grows by
\* the size of that subtree, and every node there before keeps its level,
\* link, title, parent and position.
C8_AddOnlyAppends ==
    [][/\ \A i \in DOMAIN elems :
            TocAdd(i) => AppendedOnly(toc, toc', elems[i])
       /\ \A i \in DOMAIN elems : \A j \in DOMAIN elems :
            ElemAdd(i, j) =>
                AppendedOnly(<<elems[i]>>,
                             <<elems'[IndexAfterRemove(i, j)]>>,
                             elems[j])]_vars

\* C8, its case: an element with a child of its own, added by Toc::add below
\* the element added before it.
C8_Witness ==
    /\ Len(hist) = 2
    /\ hist[2].children # <<>>
    /\ Len(toc) = 1
    /\ Size(toc) = 3
    /\ out.op = "none"

\* C9: the pre-order traversal of the Toc lists the added entries in the
\* order of the Toc::add calls, each followed by its own subtree; when all
\* of them are childless, render_epub gives the k-th added entry the id k.
C9_PreOrderIsAddOrder ==
    /\ Plain(toc) = PlainOfAll(hist, 1)
    /\ (out.op = "render_epub" /\ AllLeaf(hist)) =>
           /\ Vals(out.val, "id") = [k \in DOMAIN hist |-> k]
           /\ Vals(out.val, "src") = [k \in DOMAIN hist |-> hist[k].url]

\* C9, its case: three childless entries, the second nested and the third
\* top-level again, rendered by render_epub.
C9_Witness ==
    /\ out.op = "render_epub"
    /\ AllLeaf(hist)
    /\ Len(hist) = 3
    /\ Len(toc) = 2
    /\ Len(toc[1].children) = 1

\* C10: when every entry given to Toc::add is childless, the levels of every
\* sibling list never increase from first to last, and the levels along the
\* rightmost spine strictly increase.
C10_SiblingsAndSpine ==
    AllLeaf(hist) =>
        /\ SiblingsNonIncreasing(toc)
        /\ \A k \in 1..(Len(Spine(toc)) - 1) : Spine(toc)[k] < Spine(toc)[k + 1]

\* C10, its case: two top-level elements of different levels, the second
\* with a child.
C10_Witness ==
    /\ AllLeaf(hist)
    /\ Len(toc) = 2
    /\ toc[1].level > toc[2].level
    /\ toc[2].children # <<>>
====
